---- MODULE Spec2Model ----
(***************************************************************************)
(* bun-split-file: splitFile and mergeFiles (index.ts, release 1.2.1).     *)
(*                                                                         *)
(* A file is a sequence of bytes.  The byte at offset i of the source is   *)
(* the number i: splitFile and mergeFiles never inspect a byte, so any     *)
(* loss, duplication or reordering of bytes shows as a difference.         *)
(* A JavaScript number argument is the record [int, frac], standing for    *)
(* int + 0.5 when frac holds and for int otherwise.                        *)
(***************************************************************************)
EXTENDS Integers, Sequences, FiniteSets, TLC

\* ---- bounds ------------------------------------------------------------
MaxFileSize == 11       \* largest source file of SplitSpec, in bytes
MaxChunk == 4           \* longest chunk a stream delivers, in bytes
MaxMergeFileSize == 6   \* largest source file of Spec (split, then merge)
MaxAlgFileSize == 2     \* largest source file of ChecksumSpec
MaxEnvFileSize == 3     \* largest source file of EnvSpec

\* ---- values ------------------------------------------------------------
Undefined == "undefined"
Min(a, b) == IF a <= b THEN a ELSE b

Bytes(from, to) == [i \in 1..(to - from) |-> from + i]

Num(i) == [int |-> i, frac |-> FALSE]
IsInteger(x) == ~x.frac
\* x < 1 and x <= 0 for x = int + (0.5 or 0)
LessThanOne(x) == x.int < 1
AtMostZero(x) == x.int < 0 \/ (x.int = 0 /\ ~x.frac)
\* a variant of GreaterThan that also holds for x = n
GreaterThan_OrEqual(x, n) == x.int >= n
GreaterThan(x, n) == x.int > n \/ (x.int = n /\ x.frac)

\* ---- error messages ----------------------------------------------------
SplitPrefix == "Failed to split the file: "
ErrNoEnt == "ENOENT: no such file or directory"
ErrEmpty == "File is empty!"
ErrNotInteger == "Part size and number of parts should be an integer"
ErrPartsTooSmall == "Number of parts cannot be zero or negative"
ErrSizeTooBig == "Part size cannot bigger than file size"
ErrSizeTooSmall == "Part size cannot be negative or zero"
ErrTooManyParts == "Number of parts is too large"
ErrIO == "I/O failure"
\* an error the caller receives: the prefix and the rest of its message, the
\* path the message names (if it names one) and its cause, the error that was
\* thrown inside the try block
Thrown(m) == [message |-> m]
NoError ==
  [prefix |-> "", message |-> "", path |-> <<>>, cause |-> Thrown("")]
\* lines 189-194
SplitError(m) ==
  [prefix |-> SplitPrefix, message |-> m, path |-> <<>>, cause |-> Thrown(m)]

\* ---- the partition plan (splitFile, lines 94-133) -----------------------
\* Math.floor(fileSize / n) for an integer n >= 1
FloorDiv(a, b) == a \div b
\* a variant of PartSizeOf that rounds the division up
PartSizeOf_Ceil(fileSize, options) ==
  IF options.splitBy = "numberOfParts"
  THEN (fileSize + options.numberOfParts.int - 1) \div options.numberOfParts.int
  ELSE options.partSize.int

PartSizeOf(fileSize, options) ==
  IF options.splitBy = "numberOfParts"
  THEN FloorDiv(fileSize, options.numberOfParts.int)
  ELSE options.partSize.int

BaseParts(fileSize, options) ==
  IF options.splitBy = "numberOfParts"
  THEN options.numberOfParts.int
  ELSE FloorDiv(fileSize, options.partSize.int)

\* fileSize % partSize; with partSize = 0 the result is NaN, and NaN > 0 is
\* false, so the value is only used where partSize # 0
ExtraBytes(fileSize, partSize) == fileSize % partSize
HasExtraBytes(fileSize, partSize) ==
  partSize # 0 /\ ExtraBytes(fileSize, partSize) > 0

TotalPartsOf(fileSize, options) ==
  IF options.extraBytesHandling = "newFile"
     /\ HasExtraBytes(fileSize, PartSizeOf(fileSize, options))
  THEN BaseParts(fileSize, options) + 1
  ELSE BaseParts(fileSize, options)
\* a variant of DistributedSize whose remainder test is off by one
DistributedSize_OffByOne(partSize, extraBytes, totalParts, i) ==
  LET baseExtra == extraBytes \div totalParts
      remainder == extraBytes % totalParts
  IN  partSize + baseExtra + (IF remainder - i >= 0 THEN 1 ELSE 0)

\* partSizes[i] after the distribute loop: i is the 0-based loop index
DistributedSize(partSize, extraBytes, totalParts, i) ==
  LET baseExtra == FloorDiv(extraBytes, totalParts)
      remainder == extraBytes % totalParts
  IN  partSize + baseExtra + (IF remainder - i > 0 THEN 1 ELSE 0)

PartSizesOf(fileSize, options) ==
  LET partSize == PartSizeOf(fileSize, options)
      totalParts == TotalPartsOf(fileSize, options)
  IN  IF HasExtraBytes(fileSize, partSize)
         /\ options.extraBytesHandling = "distribute"
      THEN [k \in 1..totalParts |->
              DistributedSize(partSize, ExtraBytes(fileSize, partSize),
                              totalParts, k - 1)]
      ELSE [k \in 1..totalParts |-> partSize]

\* ---- part names (formatPartIndex, lines 28-33; path.join, lines 122-126) --
Digit == {"0", "1", "2", "3", "4", "5", "6", "7", "8", "9"}
DigitChars == <<"0", "1", "2", "3", "4", "5", "6", "7", "8", "9">>
DigitValue(c) == (CHOOSE d \in 1..10 : DigitChars[d] = c) - 1
\* `${index}`
RECURSIVE NumberToString(_)
NumberToString(n) ==
  IF n < 10 THEN <<DigitChars[n + 1]>>
  ELSE NumberToString(n \div 10) \o <<DigitChars[(n % 10) + 1]>>
Repeat(c, k) == [i \in 1..k |-> c]
formatPartIndex(index) ==
  LET indexStr == NumberToString(index)
  IN  Repeat("0", (IF Len(indexStr) <= 3 THEN 3 ELSE Len(indexStr))
                    - Len(indexStr)) \o indexStr

\* base names of the source file, as characters
PlainName == <<"a", ".", "b">>
DigitName == <<"v", ".", "m", "4">>
FileNames == {PlainName, DigitName}
OutputPath == <<"o", "1">>
\* path.join(outputPath, `${fileName}.${formatPartIndex(i)}`)
PartPath(name, i) == OutputPath \o <<"/">> \o name \o <<".">> \o formatPartIndex(i)

\* path.join(outputPath, `${fileName}.checksum.${hashAlg}`) (lines 182-185):
\* the characters of the directory and of the base name, then the words of
\* the suffix
ChecksumPath(name, hashAlg) ==
  OutputPath \o <<"/">> \o name \o <<".", "checksum", ".", hashAlg>>
\* a variant of ExtensionOf that takes what follows the first dot
ExtensionOf_AfterFirstDot(path) ==
  LET dots == {i \in DOMAIN path : path[i] = "."}
      first == IF dots = {} THEN 0
               ELSE CHOOSE i \in dots : \A j \in dots : i <= j
  IN  SubSeq(path, first + 1, Len(path))

\* compareChecksum.split('.').at(-1) (line 230): what follows the last dot
ExtensionOf(path) ==
  LET dots == {i \in DOMAIN path : path[i] = "."}
      last == IF dots = {} THEN 0
              ELSE CHOOSE i \in dots : \A j \in dots : j <= i
  IN  SubSeq(path, last + 1, Len(path))

\* ---- merge order (mergeFiles, lines 240-247) ----------------------------
MaxSafeInteger == 2147483647   \* stands for Number.MAX_SAFE_INTEGER
\* \w over the characters of the model's paths
IsWordChar(c) == c \notin {".", "/"}
\* the end of the run of digits that starts at position i
RECURSIVE RunEnd(_, _)
RunEnd(p, i) == IF i < Len(p) /\ p[i + 1] \in Digit THEN RunEnd(p, i + 1) ELSE i
\* the lookahead (?=\.\w+$|$) after position j
Lookahead(p, j) ==
  \/ j = Len(p)
  \/ /\ j + 2 <= Len(p)
     /\ p[j + 1] = "."
     /\ \A k \in (j + 2)..Len(p) : IsWordChar(p[k])
\* positions where /(\d+)(?=\.\w+$|$)/ matches; exec returns the leftmost
MatchStarts(p) == {i \in 1..Len(p) : p[i] \in Digit /\ Lookahead(p, RunEnd(p, i))}
RECURSIVE parseInt(_)
parseInt(d) ==
  IF d = <<>> THEN 0
  ELSE 10 * parseInt(SubSeq(d, 1, Len(d) - 1)) + DigitValue(d[Len(d)])
extractNumber(p) ==
  IF MatchStarts(p) = {} THEN MaxSafeInteger
  ELSE LET i == CHOOSE m \in MatchStarts(p) : \A o \in MatchStarts(p) : m <= o
       IN  parseInt(SubSeq(p, i, RunEnd(p, i)))
\* a variant of InsertByKey that puts x before the elements of equal key
RECURSIVE InsertByKey_Unstable(_, _, _)
InsertByKey_Unstable(sorted, x, key) ==
  IF sorted = <<>> THEN <<x>>
  ELSE IF key[sorted[Len(sorted)]] < key[x] THEN Append(sorted, x)
  ELSE Append(InsertByKey_Unstable(SubSeq(sorted, 1, Len(sorted) - 1), x, key),
              sorted[Len(sorted)])

\* Array.prototype.sort with the comparator extractNumber(a) - extractNumber(b):
\* a stable sort by key (key is the function path -> extractNumber(path))
RECURSIVE InsertByKey(_, _, _)
InsertByKey(sorted, x, key) ==
  IF sorted = <<>> THEN <<x>>
  ELSE IF key[sorted[Len(sorted)]] <= key[x] THEN Append(sorted, x)
  ELSE Append(InsertByKey(SubSeq(sorted, 1, Len(sorted) - 1), x, key),
              sorted[Len(sorted)])
RECURSIVE SortByKey(_, _)
SortByKey(list, key) ==
  IF list = <<>> THEN <<>>
  ELSE InsertByKey(SortByKey(SubSeq(list, 1, Len(list) - 1), key),
                   list[Len(list)], key)

\* ---- state -------------------------------------------------------------
VARIABLES
  source,        \* bytes of the source file
  sourceExists,  \* the source file is on disk
  options,       \* SplitFileOptions of the call
  pc,            \* position of splitFile
  fileSize, partSize, totalParts, partSizes,
  currentPart, currentSize,
  chunk, chunkOffset,
  streamPos,     \* bytes of the source the read stream has delivered
  hasher,        \* [active, alg, data]: data is what update() was fed
  writers,       \* parts whose writer is open (not ended)
  partFiles,     \* part index -> bytes of the part file on disk
  checksumFile,  \* [exists, alg, text]: the sidecar on disk
  error,         \* the error splitFile rejected with
  fileName,      \* path.basename(inputFilePath), as characters
  algorithms,    \* the algorithm names the callers choose from
  mpc,           \* position of mergeFiles
  mergeOptions,  \* MergeFilesOptions of the call
  inputFilePaths,\* the caller's array: part indices standing for part paths
  callerPaths,   \* inputFilePaths as the caller passed it
  partsAtCall,   \* the part files on disk when mergeFiles was called
  output,        \* [exists, data]: the destination file on disk
  outputWriter,  \* the destination writer is open (not ended)
  mergeHasher,   \* hasher of mergeFiles
  fileIndex,     \* position in files of the part being copied
  fileOffset,    \* bytes of that part already read
  deleted,       \* parts mergeFiles has deleted
  mergeError     \* the error mergeFiles rejected with

splitLocals == <<options, pc, fileSize, partSize, totalParts, partSizes,
                 currentPart, currentSize, chunk, chunkOffset, streamPos,
                 hasher, writers, error>>
splitVars == <<source, sourceExists, splitLocals, partFiles, checksumFile>>
mergeVars == <<mpc, mergeOptions, inputFilePaths, callerPaths, partsAtCall,
               output,
               outputWriter, mergeHasher, fileIndex, fileOffset, deleted,
               mergeError>>
vars == <<splitVars, fileName, algorithms, mergeVars>>

NoHasher == [active |-> FALSE, alg |-> "", data |-> <<>>]
\* a string of hex digits: the digest it spells and the case of its letters
Hex(digest) == [digest |-> digest, upper |-> FALSE]
\* the text of a file holding a hex string, with or without surrounding
\* whitespace
FileText(hex) == [hex |-> hex, padded |-> FALSE]
Trim(text) == text.hex
NoChecksumFile == [exists |-> FALSE, path |-> <<>>, text |-> FileText(Hex(<<>>))]
NoOptions == [splitBy |-> "", numberOfParts |-> Num(0), partSize |-> Num(0),
              extraBytesHandling |-> "", createChecksum |-> Undefined,
              deleteFileAfterSplit |-> FALSE]
\* hasher.digest('hex'): an ideal (collision-free) digest of the fed bytes,
\* spelled in lower case
Digest(h) == Hex(<<h.alg, h.data>>)

\* lines 7-26
SUPPORTED_HASH_ALG ==
  {"blake2b256", "blake2b512", "md4", "md5", "ripemd160", "sha1", "sha224",
   "sha256", "sha384", "sha512", "sha512-224", "sha512-256", "sha3-224",
   "sha3-256", "sha3-384", "sha3-512", "shake128", "shake256"}

\* createChecksum of a call: absent, or the name of an algorithm
ChecksumChoices == {Undefined} \cup algorithms

ArgsFor(size) ==
  { [int |-> i, frac |-> f] : i \in (0 - 1)..(size + 1), f \in BOOLEAN }

OptionsFor(size) ==
  { [splitBy |-> "numberOfParts", numberOfParts |-> a, partSize |-> Num(0),
     extraBytesHandling |-> e, createChecksum |-> c,
     deleteFileAfterSplit |-> d] :
       a \in ArgsFor(size), e \in {"distribute", "newFile"},
       c \in ChecksumChoices, d \in BOOLEAN }
  \cup
  { [splitBy |-> "size", numberOfParts |-> Num(0), partSize |-> a,
     extraBytesHandling |-> e, createChecksum |-> c,
     deleteFileAfterSplit |-> d] :
       a \in ArgsFor(size), e \in {"distribute", "newFile"},
       c \in ChecksumChoices, d \in BOOLEAN }

InitSplitState ==
  /\ options = NoOptions
  /\ pc = "idle"
  /\ fileSize = 0 /\ partSize = 0 /\ totalParts = 0 /\ partSizes = <<>>
  /\ currentPart = 1 /\ currentSize = 0
  /\ chunk = <<>> /\ chunkOffset = 0 /\ streamPos = 0
  /\ hasher = NoHasher
  /\ writers = {}
  /\ partFiles = <<>>
  /\ checksumFile = NoChecksumFile
  /\ error = NoError

NoFile == [exists |-> FALSE, data |-> <<>>]
NoMergeOptions == [checksumPath |-> [given |-> FALSE, path |-> <<>>],
                   deletePartsAfterMerge |-> FALSE]
InitMergeState ==
  /\ mpc = "idle"
  /\ mergeOptions = NoMergeOptions
  /\ inputFilePaths = <<>> /\ callerPaths = <<>> /\ partsAtCall = <<>>
  /\ output = NoFile /\ outputWriter = FALSE
  /\ mergeHasher = NoHasher
  /\ fileIndex = 1 /\ fileOffset = 0
  /\ deleted = {}
  /\ mergeError = NoError

InitSplit ==
  /\ \E n \in 0..MaxFileSize : source = Bytes(0, n)
  /\ sourceExists \in BOOLEAN
  /\ fileName = PlainName
  /\ algorithms = {"sha256"}
  /\ InitSplitState
  /\ InitMergeState

Init ==
  /\ \E n \in 0..MaxMergeFileSize : source = Bytes(0, n)
  /\ sourceExists \in BOOLEAN
  /\ fileName \in FileNames
  /\ algorithms = {"sha256"}
  /\ InitSplitState
  /\ InitMergeState

\* the call has settled: its local variables are gone
SplitLocalsGone ==
  /\ fileSize' = 0 /\ partSize' = 0 /\ totalParts' = 0 /\ partSizes' = <<>>
  /\ currentPart' = 1 /\ currentSize' = 0
  /\ chunk' = <<>> /\ chunkOffset' = 0 /\ streamPos' = 0
  /\ hasher' = NoHasher

\* the catch block of splitFile (lines 188-195): wrap and rethrow
SplitCatch(m) ==
  /\ pc' = "rejected"
  /\ error' = SplitError(m)
  /\ SplitLocalsGone

\* ---- splitFile ---------------------------------------------------------
\* lines 58-88: stat, existence, empty and integer checks; hasher set up
\* (the mkdir of the output directory, lines 66-68, is not part of the state).
\* file.stat() of a missing file rejects with ENOENT before line 62 is reached.
SplitStart ==
  /\ pc = "idle"
  /\ \E opts \in OptionsFor(Len(source)) :
       /\ options' = opts
       /\ IF ~sourceExists
          THEN SplitCatch(ErrNoEnt)
          ELSE IF Len(source) = 0
          THEN SplitCatch(ErrEmpty)
          ELSE IF (opts.splitBy = "numberOfParts" /\ ~IsInteger(opts.numberOfParts))
                  \/ (opts.splitBy = "size" /\ ~IsInteger(opts.partSize))
          THEN SplitCatch(ErrNotInteger)
          ELSE /\ pc' = "plan"
               /\ fileSize' = Len(source)
               /\ hasher' = IF opts.createChecksum # Undefined
                            THEN [active |-> TRUE, alg |-> opts.createChecksum,
                                  data |-> <<>>]
                            ELSE NoHasher
               /\ UNCHANGED <<error, partSize, totalParts, partSizes, currentPart,
                              currentSize, chunk, chunkOffset, streamPos>>
       /\ UNCHANGED <<source, sourceExists, writers, partFiles, checksumFile>>
       /\ UNCHANGED <<fileName, algorithms, mergeVars>>

\* lines 90-133: range checks and the plan
SplitPlan ==
  /\ pc = "plan"
  /\ IF options.splitBy = "numberOfParts" /\ LessThanOne(options.numberOfParts)
     THEN SplitCatch(ErrPartsTooSmall)
     ELSE IF options.splitBy = "size" /\ GreaterThan(options.partSize, fileSize)
     THEN SplitCatch(ErrSizeTooBig)
     ELSE IF options.splitBy = "size" /\ AtMostZero(options.partSize)
     THEN SplitCatch(ErrSizeTooSmall)
     ELSE /\ partSize' = PartSizeOf(fileSize, options)
          /\ totalParts' = TotalPartsOf(fileSize, options)
          /\ partSizes' = PartSizesOf(fileSize, options)
          /\ currentPart' = 1
          /\ pc' = "open"
          /\ UNCHANGED <<error, fileSize, currentSize, chunk, chunkOffset,
                         streamPos, hasher>>
  /\ UNCHANGED <<source, sourceExists, options, writers, partFiles,
                 checksumFile>>
  /\ UNCHANGED <<fileName, algorithms, mergeVars>>

\* a variant of OpenWriter that also creates the file of the part after
OpenWriter_Two(files, part) == (part :> <<>>) @@ ((part + 1) :> <<>>) @@ files

\* Bun.file(partPath).writer(): the part file is created (truncated) and its
\* writer is open
OpenWriter(files, part) == (part :> <<>>) @@ files

\* lines 135-138: the writer of the first part
SplitOpenFirst ==
  /\ pc = "open"
  /\ writers' = writers \cup {currentPart}
  /\ partFiles' = OpenWriter(partFiles, currentPart)
  /\ currentSize' = 0
  /\ pc' = "check"
  /\ UNCHANGED <<source, sourceExists, options, fileSize, partSize, totalParts,
                 partSizes, currentPart, chunk, chunkOffset, streamPos, hasher,
                 checksumFile, error>>
  /\ UNCHANGED <<fileName, algorithms, mergeVars>>

\* lines 140-142
SplitCheckPartSize ==
  /\ pc = "check"
  /\ IF partSize < 1
     THEN SplitCatch(ErrTooManyParts)
     ELSE /\ pc' = "read"
          /\ UNCHANGED <<error, fileSize, partSize, totalParts, partSizes,
                         currentPart, currentSize, chunk, chunkOffset,
                         streamPos, hasher>>
  /\ UNCHANGED <<source, sourceExists, options, writers, partFiles,
                 checksumFile>>
  /\ UNCHANGED <<fileName, algorithms, mergeVars>>

\* a variant of HasherUpdate that feeds the data twice
HasherUpdate_Twice(h, data) ==
  IF h.active THEN [h EXCEPT !.data = @ \o data \o data] ELSE h

\* lines 147-149 (and 272 in mergeFiles): hasher.update(chunk), if there is a
\* hasher
HasherUpdate(h, data) ==
  IF h.active THEN [h EXCEPT !.data = @ \o data] ELSE h

\* lines 144-149: the stream delivers the next chunk, of any length
SplitReadChunk ==
  /\ pc = "read"
  /\ streamPos < fileSize
  /\ \E len \in 1..Min(MaxChunk, fileSize - streamPos) :
       /\ chunk' = SubSeq(source, streamPos + 1, streamPos + len)
       /\ streamPos' = streamPos + len
       /\ hasher' = HasherUpdate(hasher,
                               SubSeq(source, streamPos + 1, streamPos + len))
  /\ chunkOffset' = 0
  /\ pc' = "slice"
  /\ UNCHANGED <<source, sourceExists, options, fileSize, partSize, totalParts,
                 partSizes, currentPart, currentSize, writers, partFiles,
                 checksumFile, error>>
  /\ UNCHANGED <<fileName, algorithms, mergeVars>>

\* line 144: the stream is exhausted, the for-await loop ends
SplitReadDone ==
  /\ pc = "read"
  /\ streamPos >= fileSize
  /\ pc' = "end"
  /\ UNCHANGED <<source, sourceExists, options, fileSize, partSize, totalParts,
                 partSizes, currentPart, currentSize, chunk, chunkOffset,
                 streamPos, hasher, writers, partFiles, checksumFile, error>>
  /\ UNCHANGED <<fileName, algorithms, mergeVars>>
\* a variant of BytesToWriteOf that ignores the room left in the part
BytesToWriteOf_WholeChunk(expectedSize, size, chunkLength, offset) ==
  chunkLength - offset

\* lines 152-156
BytesToWriteOf(expectedSize, size, chunkLength, offset) ==
  Min(expectedSize - size, chunkLength - offset)
BytesToWrite ==
  BytesToWriteOf(partSizes[currentPart], currentSize, Len(chunk), chunkOffset)

\* a variant of PartIsFull that holds after any write
PartIsFull_AfterAnyWrite(part, parts, size, expectedSize) ==
  part < parts /\ size > 0

\* line 164
PartIsFull(part, parts, size, expectedSize) ==
  part < parts /\ size >= expectedSize
\* a variant of WriteSlice that takes subarray(offset, n)
WriteSlice_NoOffset(files, part, offset, n) ==
  (part :> (files[part] \o SubSeq(chunk, offset + 1, n))) @@ files

\* writer.write(chunk.subarray(offset, offset + n)); await writer.flush()
WriteSlice(files, part, offset, n) ==
  (part :> (files[part] \o SubSeq(chunk, offset + 1, offset + n))) @@ files

\* a variant of NextWriter that leaves the writer of the full part open
NextWriter_NoEnd(ws, part) == ws \cup {part + 1}

\* lines 165-169: await writer.end(), then the writer of the next part
NextWriter(ws, part) == (ws \ {part}) \cup {part + 1}

\* lines 151-171: one iteration of the while loop
SplitWrite ==
  /\ pc = "slice"
  /\ chunkOffset < Len(chunk)
  /\ LET expectedSize == partSizes[currentPart]
         bytesToWrite == BytesToWrite
         written == WriteSlice(partFiles, currentPart, chunkOffset,
                               bytesToWrite)
     IN  /\ chunkOffset' = chunkOffset + bytesToWrite
         /\ IF PartIsFull(currentPart, totalParts, currentSize + bytesToWrite,
                          expectedSize)
            THEN /\ currentPart' = currentPart + 1
                 /\ writers' = NextWriter(writers, currentPart)
                 /\ partFiles' = OpenWriter(written, currentPart + 1)
                 /\ currentSize' = 0
            ELSE /\ currentSize' = currentSize + bytesToWrite
                 /\ partFiles' = written
                 /\ UNCHANGED <<currentPart, writers>>
         /\ pc' = IF chunkOffset + bytesToWrite < Len(chunk)
                  THEN "slice" ELSE "read"
  /\ UNCHANGED <<source, sourceExists, options, fileSize, partSize, totalParts,
                 partSizes, chunk, streamPos, hasher, checksumFile, error>>
  /\ UNCHANGED <<fileName, algorithms, mergeVars>>

\* line 174
SplitEnd ==
  /\ pc = "end"
  /\ writers' = writers \ {currentPart}
  /\ pc' = "rm"
  /\ UNCHANGED <<source, sourceExists, options, fileSize, partSize, totalParts,
                 partSizes, currentPart, currentSize, chunk, chunkOffset,
                 streamPos, hasher, partFiles, checksumFile, error>>
  /\ UNCHANGED <<fileName, algorithms, mergeVars>>

\* a variant of RemoveSource that ignores the flag
RemoveSource_Always(exists, deleteFileAfterSplit) == FALSE

\* lines 176-178: if (options.deleteFileAfterSplit) await rm(inputFilePath)
RemoveSource(exists, deleteFileAfterSplit) ==
  IF deleteFileAfterSplit THEN FALSE ELSE exists

\* lines 176-178
SplitRemoveSource ==
  /\ pc = "rm"
  /\ sourceExists' = RemoveSource(sourceExists, options.deleteFileAfterSplit)
  /\ pc' = "checksum"
  /\ UNCHANGED <<source, options, fileSize, partSize, totalParts, partSizes,
                 currentPart, currentSize, chunk, chunkOffset, streamPos,
                 hasher, writers, partFiles, checksumFile, error>>
  /\ UNCHANGED <<fileName, algorithms, mergeVars>>

\* lines 180-187, and the return
SplitChecksum ==
  /\ pc = "checksum"
  /\ checksumFile' = IF hasher.active
                     THEN [exists |-> TRUE,
                           path |-> ChecksumPath(fileName, hasher.alg),
                           text |-> FileText(Digest(hasher))]
                     ELSE checksumFile
  /\ pc' = "resolved"
  /\ SplitLocalsGone
  /\ UNCHANGED <<source, sourceExists, options, writers, partFiles, error>>
  /\ UNCHANGED <<fileName, algorithms, mergeVars>>

\* a read, write, flush, end, rm or Bun.write rejects; the catch block
\* (lines 188-195) wraps the error and rethrows.  A failing write may have
\* put any prefix of the slice on disk.
SplitIOFailure ==
  /\ pc \in {"read", "slice", "end", "rm", "checksum"}
  /\ pc = "checksum" => hasher.active
  /\ pc = "rm" => options.deleteFileAfterSplit
  /\ IF pc = "slice"
     THEN \E k \in 0..BytesToWrite :
            partFiles' = WriteSlice(partFiles, currentPart, chunkOffset, k)
     ELSE UNCHANGED partFiles
  /\ SplitCatch(ErrIO)
  /\ UNCHANGED <<source, sourceExists, options, writers, checksumFile>>
  /\ UNCHANGED <<fileName, algorithms, mergeVars>>

NextSplit ==
  \/ SplitStart
  \/ SplitPlan
  \/ SplitOpenFirst
  \/ SplitCheckPartSize
  \/ SplitReadChunk
  \/ SplitReadDone
  \/ SplitWrite
  \/ SplitEnd
  \/ SplitRemoveSource
  \/ SplitChecksum
  \/ SplitIOFailure

SplitSpec == InitSplit /\ [][NextSplit]_vars

\* ---- mergeFiles ---------------------------------------------------------
MaxShuffle == 3   \* part lists up to this length are passed in every order

MergePrefix == "Failed to merge the file: "
ErrEmptyList == "Input files list is empty"
ErrBadExtension ==
  "Provided checksum file has an invalid or unsupported extension"
ErrPartMissing == "File part does not exist"
ErrPartEmpty == "File part is empty"
ErrChecksumMismatch == "Checksum mismatch"
\* a variant of MergeErrorOf that drops the cause
MergeErrorOf_NoCause(m) ==
  [prefix |-> MergePrefix, message |-> m, path |-> <<>>, cause |-> Thrown("")]

\* lines 297-302
MergeErrorOf(m) ==
  [prefix |-> MergePrefix, message |-> m, path |-> <<>>, cause |-> Thrown(m)]

Shuffles(n) ==
  {f \in [1..n -> 1..n] : \A a, b \in 1..n : f[a] = f[b] => a = b}
Ascending(n) == [i \in 1..n |-> i]
Reversed(n) == [i \in 1..n |-> n + 1 - i]
Rotated(n) == [i \in 1..n |-> (i % n) + 1]
\* the lists of part paths a caller passes: the n parts of the split in some
\* order, or no path at all
PathLists(n) ==
  {<<>>} \cup (IF n <= MaxShuffle THEN Shuffles(n)
               ELSE {Ascending(n), Reversed(n), Rotated(n)})
\* checksumPath is absent, or names the sidecar of the split, or a file with
\* the extension of another algorithm or of no algorithm
MergeOptionsFor ==
  { [checksumPath |-> c, deletePartsAfterMerge |-> d] :
      c \in {[given |-> FALSE, path |-> <<>>]}
            \cup {[given |-> TRUE, path |-> p] :
                    p \in {ChecksumPath(fileName, e) :
                             e \in {"sha256", "md5", "txt"}}
                          \cup (IF checksumFile.exists THEN {checksumFile.path}
                                ELSE {})},
      d \in BOOLEAN }

\* Bun.file(compareChecksum) (line 281)
ChecksumFileAt(path) ==
  IF checksumFile.exists /\ checksumFile.path = path THEN checksumFile
  ELSE NoChecksumFile
\* a variant of IsSupported that accepts every extension
IsSupported_Any(ext) == Len(ext) >= 1

\* SUPPORTED_HASH_ALG.includes(ext) (line 231)
IsSupported(ext) == Len(ext) = 1 /\ ext[1] \in SUPPORTED_HASH_ALG

SortKeys(paths) ==
  [f \in {paths[i] : i \in DOMAIN paths} |->
     extractNumber(PartPath(fileName, f))]

\* a variant of RemoveFile that removes every file
RemoveFile_All(files, f) == <<>>

\* Bun.file(f).delete() (line 293)
RemoveFile(files, f) == [i \in DOMAIN files \ {f} |-> files[i]]

MergeLocalsGone ==
  /\ mergeHasher' = NoHasher
  /\ fileIndex' = 1 /\ fileOffset' = 0

\* the catch block of mergeFiles (lines 296-303): wrap and rethrow
MergeCatch(m) ==
  /\ mpc' = "rejected"
  /\ mergeError' = MergeErrorOf(m)
  /\ MergeLocalsGone
\* the same for `File part [${path}] ...` (lines 260 and 263)
MergeCatchAt(m, f) ==
  /\ mpc' = "rejected"
  /\ mergeError' = [MergeErrorOf(m) EXCEPT !.path = PartPath(fileName, f)]
  /\ MergeLocalsGone

\* lines 215-238: the list and the checksum extension are checked
MergeStart ==
  /\ mpc = "idle"
  /\ pc = "resolved"
  /\ \E paths \in PathLists(TotalPartsOf(Len(source), options)),
        mopts \in MergeOptionsFor :
       /\ mergeOptions' = mopts
       /\ inputFilePaths' = paths
       /\ callerPaths' = paths
       /\ partsAtCall' = partFiles
       /\ IF Len(paths) = 0
          THEN MergeCatch(ErrEmptyList)
          ELSE IF mopts.checksumPath.given
                  /\ ~IsSupported(ExtensionOf(mopts.checksumPath.path))
          THEN MergeCatch(ErrBadExtension)
          ELSE /\ mpc' = "sort"
               /\ mergeHasher' = IF mopts.checksumPath.given
                                 THEN [active |-> TRUE,
                                       alg |-> ExtensionOf(
                                                 mopts.checksumPath.path)[1],
                                       data |-> <<>>]
                                 ELSE NoHasher
               /\ UNCHANGED <<fileIndex, fileOffset, mergeError>>
       /\ UNCHANGED <<splitVars, fileName, algorithms, output, outputWriter, deleted>>

\* lines 240-247: inputFilePaths.sort(...) sorts the caller's array in place
MergeSort ==
  /\ mpc = "sort"
  /\ inputFilePaths' = SortByKey(inputFilePaths, SortKeys(inputFilePaths))
  /\ mpc' = "stat"
  /\ UNCHANGED <<splitVars, fileName, algorithms, mergeOptions, callerPaths, partsAtCall, output,
                 outputWriter, mergeHasher, fileIndex, fileOffset, deleted,
                 mergeError>>

\* lines 249-256: fileStats, for the path at each position of the list
FileExists(files, f) == f \in DOMAIN files
FileSize(files, f) == IF FileExists(files, f) THEN Len(files[f]) ELSE 0
\* find(...): the position of the first match, or 0 for undefined
First(positions) ==
  IF positions = {} THEN 0
  ELSE CHOOSE i \in positions : \A j \in positions : i <= j
\* line 258
NonExistentFile(paths, files) ==
  First({i \in DOMAIN paths : ~FileExists(files, paths[i])})
\* a variant of EmptyFile that looks at the first path only
EmptyFile_HeadOnly(paths, files) ==
  First({i \in DOMAIN paths : i = 1 /\ FileSize(files, paths[i]) = 0})
\* line 262
EmptyFile(paths, files) ==
  First({i \in DOMAIN paths : FileSize(files, paths[i]) = 0})

\* lines 249-263: every part is looked up, then the first missing one and
\* after that the first empty one is reported
MergeStat ==
  /\ mpc = "stat"
  /\ LET nonExistentFile == NonExistentFile(inputFilePaths, partFiles)
         emptyFile == EmptyFile(inputFilePaths, partFiles)
     IN  IF nonExistentFile # 0
         THEN MergeCatchAt(ErrPartMissing, inputFilePaths[nonExistentFile])
         ELSE IF emptyFile # 0
         THEN MergeCatchAt(ErrPartEmpty, inputFilePaths[emptyFile])
         ELSE /\ mpc' = "open"
              /\ UNCHANGED <<mergeHasher, fileIndex, fileOffset, mergeError>>
  /\ UNCHANGED <<splitVars, fileName, algorithms, mergeOptions, inputFilePaths,
                 callerPaths, partsAtCall, output, outputWriter, deleted>>

\* line 265: the destination is created (truncated) and its writer is open
MergeOpen ==
  /\ mpc = "open"
  /\ output' = [exists |-> TRUE, data |-> <<>>]
  /\ outputWriter' = TRUE
  /\ fileIndex' = 1 /\ fileOffset' = 0
  /\ mpc' = "copy"
  /\ UNCHANGED <<splitVars, fileName, algorithms, mergeOptions, inputFilePaths,
                 callerPaths, partsAtCall, mergeHasher, deleted, mergeError>>

\* a variant of WriterWrite that replaces what was written before
WriterWrite_Overwrite(file, data) == [file EXCEPT !.data = data]

\* lines 273-274: writer.write(chunk); await writer.flush()
WriterWrite(file, data) == [file EXCEPT !.data = @ \o data]

\* a variant of AllCopied that holds after the first part
AllCopied_AfterFirst(index, files) == index > 1

\* line 267: the loop over files ends after the last of them
AllCopied(index, files) == index > Len(files)

\* a variant of StreamDone that holds after the first chunk
StreamDone_AfterFirstChunk(offset, size) == offset > 0

\* line 271: the for-await loop over the stream of a part ends when the stream
\* has delivered every byte of the part
StreamDone(offset, size) == offset >= size

\* lines 267-276: the stream of the current part delivers its next chunk,
\* which is hashed, written and flushed
MergeCopyChunk ==
  /\ mpc = "copy"
  /\ ~AllCopied(fileIndex, inputFilePaths)
  /\ LET part == partFiles[inputFilePaths[fileIndex]]
     IN  \E len \in 1..Min(MaxChunk, Len(part) - fileOffset) :
           LET data == SubSeq(part, fileOffset + 1, fileOffset + len)
           IN  /\ output' = WriterWrite(output, data)
               /\ mergeHasher' = HasherUpdate(mergeHasher, data)
               /\ IF StreamDone(fileOffset + len, Len(part))
                  THEN fileIndex' = fileIndex + 1 /\ fileOffset' = 0
                  ELSE fileOffset' = fileOffset + len /\ UNCHANGED fileIndex
  /\ UNCHANGED <<splitVars, fileName, algorithms, mpc, mergeOptions, inputFilePaths,
                 callerPaths, partsAtCall, outputWriter, deleted, mergeError>>

\* line 267: every part has been copied
MergeCopyDone ==
  /\ mpc = "copy"
  /\ AllCopied(fileIndex, inputFilePaths)
  /\ mpc' = "end"
  /\ UNCHANGED <<splitVars, fileName, algorithms, mergeOptions, inputFilePaths,
                 callerPaths, partsAtCall, output, outputWriter, mergeHasher, fileIndex,
                 fileOffset, deleted, mergeError>>

\* line 278
MergeEnd ==
  /\ mpc = "end"
  /\ outputWriter' = FALSE
  /\ mpc' = "verify"
  /\ UNCHANGED <<splitVars, fileName, algorithms, mergeOptions, inputFilePaths,
                 callerPaths, partsAtCall, output, mergeHasher, fileIndex, fileOffset,
                 deleted, mergeError>>

\* a variant of ChecksumDiffers that compares without regard to case
ChecksumDiffers_IgnoreCase(originalChecksum, computed) ==
  originalChecksum.digest # computed.digest

\* line 284
ChecksumDiffers(originalChecksum, computed) == originalChecksum # computed

\* lines 280-289: the sidecar is read, trimmed and compared with the digest
MergeVerify ==
  /\ mpc = "verify"
  /\ mergeHasher.active => ChecksumFileAt(mergeOptions.checksumPath.path).exists
  /\ IF mergeHasher.active
        /\ ChecksumDiffers(
             Trim(ChecksumFileAt(mergeOptions.checksumPath.path).text),
             Digest(mergeHasher))
     THEN MergeCatch(ErrChecksumMismatch)
     ELSE /\ mpc' = "delete"
          /\ fileIndex' = 1
          /\ UNCHANGED <<mergeHasher, fileOffset, mergeError>>
  /\ UNCHANGED <<splitVars, fileName, algorithms, mergeOptions, inputFilePaths,
                 callerPaths, partsAtCall, output, outputWriter, deleted>>

\* lines 291-295: one iteration of the delete loop
MergeDeletePart ==
  /\ mpc = "delete"
  /\ mergeOptions.deletePartsAfterMerge
  /\ fileIndex <= Len(inputFilePaths)
  /\ inputFilePaths[fileIndex] \in DOMAIN partFiles
  /\ partFiles' = RemoveFile(partFiles, inputFilePaths[fileIndex])
  /\ deleted' = deleted \cup {inputFilePaths[fileIndex]}
  /\ fileIndex' = fileIndex + 1
  /\ UNCHANGED <<source, sourceExists, splitLocals, checksumFile, fileName,
                 algorithms, mpc, mergeOptions, inputFilePaths, callerPaths, partsAtCall, output,
                 outputWriter, mergeHasher, fileOffset, mergeError>>

\* mergeFiles returns
MergeDone ==
  /\ mpc = "delete"
  /\ ~mergeOptions.deletePartsAfterMerge \/ fileIndex > Len(inputFilePaths)
  /\ mpc' = "resolved"
  /\ MergeLocalsGone
  /\ UNCHANGED <<splitVars, fileName, algorithms, mergeOptions, inputFilePaths,
                 callerPaths, partsAtCall, output, outputWriter, deleted, mergeError>>

\* a read of a part or of the sidecar, a write, flush, end or delete rejects;
\* the catch block (lines 296-303) wraps the error and rethrows
MergeIOFailure ==
  /\ \/ mpc = "copy" /\ fileIndex <= Len(inputFilePaths)
     \/ mpc = "end"
     \/ mpc = "verify" /\ mergeHasher.active
     \/ mpc = "delete" /\ mergeOptions.deletePartsAfterMerge
                       /\ fileIndex <= Len(inputFilePaths)
  /\ MergeCatch(ErrIO)
  /\ UNCHANGED <<splitVars, fileName, algorithms, mergeOptions, inputFilePaths,
                 callerPaths, partsAtCall, output, outputWriter, deleted>>

NextMerge ==
  \/ MergeStart
  \/ MergeSort
  \/ MergeStat
  \/ MergeOpen
  \/ MergeCopyChunk
  \/ MergeCopyDone
  \/ MergeEnd
  \/ MergeVerify
  \/ MergeDeletePart
  \/ MergeDone
  \/ MergeIOFailure

Next == NextSplit \/ NextMerge

Spec == Init /\ [][Next]_vars

\* ---- the files between splitFile and mergeFiles -------------------------
\* the parts the split produced
Produced == 1..TotalPartsOf(Len(source), options)
InvalidDigest == <<"invalid", <<>>>>
\* texts a sidecar can be overwritten with: the digest it holds or another
\* one, in lower or upper case, with or without surrounding whitespace
SidecarTexts ==
  { [hex |-> [digest |-> d, upper |-> u], padded |-> w] :
      d \in {checksumFile.text.hex.digest, InvalidDigest},
      u \in BOOLEAN, w \in BOOLEAN }

\* one of the parts is removed
EnvDeletePart ==
  /\ pc = "resolved" /\ mpc = "idle"
  /\ DOMAIN partFiles = Produced
  /\ \E f \in DOMAIN partFiles : partFiles' = RemoveFile(partFiles, f)
  /\ UNCHANGED <<source, sourceExists, splitLocals, checksumFile, fileName,
                 algorithms, mergeVars>>

\* one of the parts is truncated to no bytes
EnvEmptyPart ==
  /\ pc = "resolved" /\ mpc = "idle"
  /\ \A f \in DOMAIN partFiles : partFiles[f] # <<>>
  /\ \E f \in DOMAIN partFiles : partFiles' = (f :> <<>>) @@ partFiles
  /\ UNCHANGED <<source, sourceExists, splitLocals, checksumFile, fileName,
                 algorithms, mergeVars>>

\* the sidecar is overwritten
EnvWriteChecksum ==
  /\ pc = "resolved" /\ mpc = "idle"
  /\ checksumFile.exists
  /\ \E text \in SidecarTexts :
       /\ text # checksumFile.text
       /\ checksumFile' = [checksumFile EXCEPT !.text = text]
  /\ UNCHANGED <<source, sourceExists, splitLocals, partFiles, fileName,
                 algorithms, mergeVars>>

InitEnv ==
  /\ \E n \in 0..MaxEnvFileSize : source = Bytes(0, n)
  /\ sourceExists \in BOOLEAN
  /\ fileName = PlainName
  /\ algorithms = {"sha256"}
  /\ InitSplitState
  /\ InitMergeState

NextEnv ==
  \/ Next
  \/ EnvDeletePart
  \/ EnvEmptyPart
  \/ EnvWriteChecksum

EnvSpec == InitEnv /\ [][NextEnv]_vars

\* splitFile, then mergeFiles, with every supported algorithm
InitChecksum ==
  /\ \E n \in 0..MaxAlgFileSize : source = Bytes(0, n)
  /\ sourceExists \in BOOLEAN
  /\ fileName \in FileNames
  /\ algorithms = SUPPORTED_HASH_ALG
  /\ InitSplitState
  /\ InitMergeState

ChecksumSpec == InitChecksum /\ [][Next]_vars

\* ---- properties of splitFile -------------------------------------------
Planned == pc \in {"open", "check", "read", "slice", "end", "rm", "checksum"}
Streaming == pc \in {"read", "slice", "end", "rm", "checksum"}
Requested ==
  IF options.splitBy = "numberOfParts" THEN options.numberOfParts
  ELSE options.partSize
ByCount == options.splitBy = "numberOfParts"
BySize == options.splitBy = "size"
Distribute == options.extraBytesHandling = "distribute"
NewFile == options.extraBytesHandling = "newFile"
RECURSIVE Sum(_)
Sum(s) == IF s = <<>> THEN 0 ELSE Head(s) + Sum(Tail(s))
ValidationErrors ==
  {ErrNotInteger, ErrPartsTooSmall, ErrSizeTooBig, ErrSizeTooSmall,
   ErrTooManyParts}

\* C1: size conservation. For every accepted request (1 <= numberOfParts <= F
\* or 1 <= partSize <= F, distribute or newFile) the part sizes that splitFile
\* plans sum to the file size.
C1_SizeConservation ==
  (Planned /\ partSize >= 1) => Sum(partSizes) = fileSize

\* C2: round trip. When splitFile has resolved and mergeFiles, given the list
\* of the part files the split produced, has resolved, the destination file
\* holds exactly the bytes of the source.
InProducedOrder == callerPaths = Ascending(Len(callerPaths))
C3_LoopConsumes ==
  (pc = "slice" /\ chunkOffset < Len(chunk)) => BytesToWrite >= 1

\* C4: split by number of parts with distribute. A successful splitFile leaves
\* exactly count part files; part i has floor(F/count) + 1 bytes if
\* i <= F mod count and floor(F/count) bytes otherwise.
C4_DistributeByCount ==
  (pc = "resolved" /\ ByCount /\ Distribute) =>
    LET F == Len(source)
        count == options.numberOfParts.int
    IN  /\ DOMAIN partFiles = 1..count
        /\ \A i \in 1..count :
             Len(partFiles[i]) =
               (F \div count) + (IF i <= F % count THEN 1 ELSE 0)
C4_Witness ==
  /\ pc = "resolved" /\ ByCount /\ Distribute
  /\ options.numberOfParts.int >= 3
  /\ Len(source) % options.numberOfParts.int >= 2

\* C5: split by size with distribute. With n = floor(F/s) and r = F mod s a
\* successful splitFile leaves exactly n part files and part i has
\* s + floor(r/n) + (1 if i <= r mod n else 0) bytes.
C5_DistributeBySize ==
  (pc = "resolved" /\ BySize /\ Distribute) =>
    LET F == Len(source)
        s == options.partSize.int
        n == F \div s
        r == F % s
    IN  /\ DOMAIN partFiles = 1..n
        /\ \A i \in 1..n :
             Len(partFiles[i]) =
               s + (r \div n) + (IF i <= r % n THEN 1 ELSE 0)
C5_Witness ==
  /\ pc = "resolved" /\ BySize /\ Distribute
  /\ LET s == options.partSize.int
         n == Len(source) \div s
         r == Len(source) % s
     IN  n >= 2 /\ r \div n >= 1 /\ r % n >= 1

\* C6: split by size with newFile and F mod s > 0. A successful splitFile
\* leaves exactly ceil(F/s) part files; every part but the last has s bytes and
\* the last has F mod s bytes.
C6_NewFileBySize ==
  (pc = "resolved" /\ BySize /\ NewFile
     /\ Len(source) % options.partSize.int > 0) =>
    LET F == Len(source)
        s == options.partSize.int
        n == (F \div s) + 1
    IN  /\ DOMAIN partFiles = 1..n
        /\ \A i \in 1..(n - 1) : Len(partFiles[i]) = s
        /\ Len(partFiles[n]) = F % s
C6_Witness ==
  /\ pc = "resolved" /\ BySize /\ NewFile
  /\ Len(source) % options.partSize.int > 0
  /\ Len(source) \div options.partSize.int >= 2

\* C7: split by number of parts with newFile. If F mod count > 0 a successful
\* splitFile leaves count + 1 part files, the first count of floor(F/count)
\* bytes and the last of F mod count bytes; if F mod count = 0 it leaves count
\* parts of F/count bytes.
C7_NewFileByCount ==
  (pc = "resolved" /\ ByCount /\ NewFile) =>
    LET F == Len(source)
        count == options.numberOfParts.int
        r == F % count
    IN  /\ \A i \in 1..count : Len(partFiles[i]) = F \div count
        /\ IF r > 0
           THEN /\ DOMAIN partFiles = 1..(count + 1)
                /\ Len(partFiles[count + 1]) = r
           ELSE DOMAIN partFiles = 1..count
C7_Witness ==
  /\ pc = "resolved" /\ ByCount /\ NewFile
  /\ options.numberOfParts.int >= 2
  /\ Len(source) % options.numberOfParts.int > 0

\* C8: each invalid split input is rejected with its own error. A call that
\* gets past validation has none of the causes, a rejected call's message
\* names a cause that is present, and the messages are pairwise distinct.
CauseMissing == ~sourceExists
CauseEmpty == Len(source) = 0
CauseNotInteger == Requested.frac
CauseCountLow == ByCount /\ Requested.int <= 0
CauseSizeLow == BySize /\ (Requested.int < 0 \/ Requested = Num(0))
CauseSizeBig ==
  BySize /\ (Requested.int > Len(source)
             \/ (Requested.int = Len(source) /\ Requested.frac))
CauseCountBig ==
  ByCount /\ (Requested.int > Len(source)
              \/ (Requested.int = Len(source) /\ Requested.frac))
AnyCause ==
  \/ CauseEmpty \/ CauseNotInteger \/ CauseCountLow \/ CauseSizeLow
  \/ CauseSizeBig \/ CauseCountBig
CauseOf ==
  [m \in {ErrNoEnt, ErrEmpty} \cup ValidationErrors |->
     CASE m = ErrNoEnt -> CauseMissing
       [] m = ErrEmpty -> CauseEmpty
       [] m = ErrNotInteger -> CauseNotInteger
       [] m = ErrPartsTooSmall -> CauseCountLow
       [] m = ErrSizeTooBig -> CauseSizeBig
       [] m = ErrSizeTooSmall -> CauseSizeLow
       [] m = ErrTooManyParts -> CauseCountBig]
C8_DistinctErrors ==
  /\ Cardinality({ErrNoEnt, ErrEmpty} \cup ValidationErrors) = 7
  /\ Streaming => ~AnyCause
  /\ pc \in {"read", "slice", "end"} => sourceExists
  /\ pc = "resolved" => ~AnyCause
  /\ pc = "rejected" =>
       /\ error.prefix = SplitPrefix
       /\ error.message \in ({ErrNoEnt, ErrEmpty, ErrIO} \cup ValidationErrors)
       /\ error.message # ErrIO => CauseOf[error.message]
       /\ error.message = ErrIO => ~AnyCause
C8_Witness ==
  /\ pc = "rejected" /\ error.message = ErrTooManyParts
  /\ sourceExists /\ Len(source) >= 2

\* C9: a rejected split request writes nothing. When splitFile rejects one of
\* the invalid requests, no part file and no checksum file has been created or
\* opened for writing.
C9_RejectWritesNothing ==
  (pc = "rejected" /\ error.message \in ValidationErrors) =>
    (partFiles = <<>> /\ writers = {} /\ ~checksumFile.exists)

\* C10: cleanup on failed split. When a read or write fails after splitFile
\* started writing, no part file of the call is left on disk.
C10_CleanupOnFailure ==
  (pc = "rejected" /\ error.message = ErrIO) => partFiles = <<>>

\* ---- properties of mergeFiles -------------------------------------------
Listed == {callerPaths[i] : i \in DOMAIN callerPaths}
MissingAtCall(f) == f \notin DOMAIN partsAtCall
EmptyAtCall(f) == f \in DOMAIN partsAtCall /\ partsAtCall[f] = <<>>

\* C11: merge validates before it writes. If any path of the list names a
\* missing or zero-length file when mergeFiles is called, whatever its
\* position in the list, the call does not resolve, and the destination file
\* is neither created nor opened and receives no byte.
C11_ValidateBeforeWrite ==
  (mpc # "idle" /\ \E f \in Listed : MissingAtCall(f) \/ EmptyAtCall(f)) =>
    /\ mpc \in {"sort", "stat", "rejected"}
    /\ ~output.exists /\ ~outputWriter /\ output.data = <<>>
C11_Witness ==
  /\ mpc = "rejected"
  /\ mergeError.message = ErrPartEmpty
  /\ Len(callerPaths) = 3
  /\ EmptyAtCall(3)
  /\ \A f \in {1, 2} : ~MissingAtCall(f) /\ ~EmptyAtCall(f)
  /\ callerPaths[1] = 3
  /\ inputFilePaths[3] = 3

\* the bytes of the parts 1..n of files, in the order of their indices
RECURSIVE InIndexOrder(_, _)
InIndexOrder(files, n) ==
  IF n = 0 THEN <<>> ELSE InIndexOrder(files, n - 1) \o files[n]

\* C12: order independence of merge. Whatever the order in which the caller
\* lists the parts of a split, a merge that resolves leaves the same
\* destination content: the parts' bytes in the order of their indices.
C12_OrderIndependence ==
  (mpc = "resolved" /\ Listed = DOMAIN partsAtCall) =>
    output.data = InIndexOrder(partsAtCall, Len(callerPaths))

Sorted == mpc \in {"stat", "open", "copy", "end", "verify", "delete", "resolved"}

\* C13: merge order is the part index. For every base name, also one holding
\* digits, the key the sort gives the path of part i is i, and after the sort
\* the list is in strictly ascending order of the part indices.
C13_MergeOrderIsIndex ==
  Sorted =>
    /\ \A i \in DOMAIN inputFilePaths :
         extractNumber(PartPath(fileName, inputFilePaths[i])) = inputFilePaths[i]
    /\ \A i, j \in DOMAIN inputFilePaths :
         i < j => inputFilePaths[i] < inputFilePaths[j]

\* the file at the checksum path of the call, and the lower-case hex digest,
\* under the algorithm its name ends with, of the bytes written to the
\* destination
SidecarOfCall == ChecksumFileAt(mergeOptions.checksumPath.path)
DigestOfOutput ==
  [digest |-> <<SidecarOfCall.path[Len(SidecarOfCall.path)], output.data>>,
   upper |-> FALSE]

\* C14: checksum verdict. With a checksum path, mergeFiles rejects with a
\* checksum mismatch only if the sidecar's text without its surrounding
\* whitespace differs, case-sensitively, from the hex digest of the bytes
\* written to the destination, and it passes the verification only if the two
\* are equal: no merge resolves against a sidecar that holds another text.
C14_ChecksumVerdict ==
  /\ (mpc = "rejected" /\ mergeError.message = ErrChecksumMismatch) =>
       /\ mergeOptions.checksumPath.given
       /\ SidecarOfCall.exists
       /\ SidecarOfCall.text.hex # DigestOfOutput
  /\ (mpc \in {"delete", "resolved"} /\ mergeOptions.checksumPath.given) =>
       /\ SidecarOfCall.exists
       /\ SidecarOfCall.text.hex = DigestOfOutput
C14_Witness ==
  /\ mpc = "rejected" /\ mergeError.message = ErrChecksumMismatch
  /\ SidecarOfCall.text.padded
  /\ SidecarOfCall.text.hex.upper
  /\ SidecarOfCall.text.hex.digest = DigestOfOutput.digest
  /\ Len(callerPaths) >= 2

C16_DigestCoversStream ==
  /\ (Streaming /\ hasher.active) =>
       hasher.data = SubSeq(source, 1, streamPos)
  /\ (pc = "checksum" /\ hasher.active) =>
       (hasher.data = source /\ Len(hasher.data) = fileSize)
  /\ (pc = "resolved" /\ options.createChecksum # Undefined) =>
       /\ checksumFile.exists
       /\ checksumFile.text.hex.digest = <<options.createChecksum, source>>
C16_Witness ==
  /\ pc = "checksum" /\ hasher.active
  /\ hasher.data = source
  /\ Len(source) > MaxChunk
  /\ totalParts >= 3
  /\ \E i \in DOMAIN partFiles : Len(partFiles[i]) = 1

\* the bytes of part occur in data, contiguous and in order
OccursIn(part, data) ==
  \E k \in 0..(Len(data) - Len(part)) :
    SubSeq(data, k + 1, k + Len(part)) = part

\* C17: never delete before confirmed copy. mergeFiles deletes a part only if
\* deletePartsAfterMerge is set, and every part it has deleted has all its
\* bytes, as they were when mergeFiles was called, written to the destination.
C17_DeleteAfterCopy ==
  \A f \in deleted :
    /\ mergeOptions.deletePartsAfterMerge
    /\ f \in DOMAIN partsAtCall
    /\ OccursIn(partsAtCall[f], output.data)
C17_Witness ==
  /\ mpc = "delete"
  /\ deleted # {} /\ deleted # Listed
  /\ \E f \in deleted : Len(partsAtCall[f]) >= 2
  /\ \A f \in deleted : f \notin DOMAIN partFiles

\* C18: strict write-then-advance. At every moment of splitFile at most one
\* part writer is open, and while the parts are written it is the writer of
\* the current part: the writers of all earlier parts have been ended.
C18_WriteThenAdvance ==
  /\ Cardinality(writers) <= 1
  /\ Planned => writers \subseteq {currentPart}
C18_Witness ==
  /\ pc = "slice"
  /\ currentPart = 3 /\ writers = {3}
  /\ DOMAIN partFiles = 1..3
  /\ Len(partFiles[1]) >= 1 /\ Len(partFiles[2]) >= 1

\* C19: delete-source-on-success. When splitFile has resolved, the source is
\* gone if deleteFileAfterSplit is set and is in place if it is not; and
\* whenever a call that found the source has removed it, the writer of the
\* last part has been ended and no part writer is open.
C19_DeleteSourceOnSuccess ==
  /\ pc = "resolved" => (sourceExists <=> ~options.deleteFileAfterSplit)
  /\ (pc \notin {"idle", "rejected"} /\ ~sourceExists) =>
       (pc \in {"checksum", "resolved"} /\ writers = {})
C19_Witness ==
  /\ pc = "resolved"
  /\ options.deleteFileAfterSplit /\ ~sourceExists
  /\ Cardinality(DOMAIN partFiles) >= 2
  /\ writers = {}

Finalized == output.exists /\ ~outputWriter
AllListedCopied == \A f \in Listed : OccursIn(partsAtCall[f], output.data)

\* C20 as stated: if mergeFiles rejects after it has started writing, because
\* a read or write failed before every part was copied or because the checksum
\* does not match, the destination does not hold a finalized output file.
C20_NoFinalizedAfterFailure ==
  (/\ mpc = "rejected" /\ output.exists
   /\ \/ mergeError.message = ErrChecksumMismatch
      \/ mergeError.message = ErrIO /\ ~AllListedCopied) =>
    ~Finalized

\* C20: a failed merge leaves no half-written destination finalized. If
\* mergeFiles rejects after it has started writing and the destination's
\* writer has been ended, the destination holds every byte of every listed
\* part; a call rejected before every part was copied leaves the writer
\* un-ended, and a call rejected for a checksum mismatch leaves the complete,
\* finalized destination on disk.
C20_FinalizedOnlyWhenComplete ==
  /\ (mpc = "rejected" /\ Finalized) => AllListedCopied
  /\ (mpc = "rejected" /\ mergeError.message = ErrChecksumMismatch) =>
       (Finalized /\ AllListedCopied)
C20_Witness ==
  /\ mpc = "rejected" /\ mergeError.message = ErrChecksumMismatch
  /\ Finalized /\ AllListedCopied
  /\ Len(callerPaths) >= 2
  /\ SidecarOfCall.text.hex.digest = InvalidDigest

\* the call has touched no file: the destination is neither created nor
\* opened, and no part has been looked up, read or deleted
NothingTouched ==
  /\ ~output.exists /\ ~outputWriter /\ output.data = <<>>
  /\ deleted = {}
  /\ partFiles = partsAtCall
  /\ inputFilePaths = callerPaths
BadExtensionAtCall ==
  /\ mergeOptions.checksumPath.given
  /\ LET path == mergeOptions.checksumPath.path
     IN  path[Len(path)] \notin SUPPORTED_HASH_ALG

\* C21: merge argument validation precedes all file output. A call with an
\* empty part list, or with a checksum path whose last dot-separated segment
\* is not a supported algorithm name, is rejected with the error of that
\* cause as its first step: the destination is not opened and no part is read.
C21_ArgumentsFirst ==
  /\ (mpc # "idle" /\ callerPaths = <<>>) =>
       (mpc = "rejected" /\ mergeError.message = ErrEmptyList
        /\ NothingTouched)
  /\ (mpc # "idle" /\ callerPaths # <<>> /\ BadExtensionAtCall) =>
       (mpc = "rejected" /\ mergeError.message = ErrBadExtension
        /\ NothingTouched)
C21_Witness ==
  /\ mpc = "rejected" /\ mergeError.message = ErrBadExtension
  /\ Len(callerPaths) >= 2
  /\ checksumFile.exists
  /\ NothingTouched

\* C22: error wrapping. splitFile has rejected exactly when an error was
\* thrown inside it, and the error it rejects with carries the split prefix,
\* the message of the thrown error and the thrown error as its cause; the same
\* holds of mergeFiles with its own prefix, which differs from the split's.
\* No call resolves with an error thrown.
C22_ErrorWrapping ==
  /\ SplitPrefix # MergePrefix
  /\ (pc = "rejected") <=> (error # NoError)
  /\ pc = "rejected" =>
       /\ error.prefix = SplitPrefix
       /\ error.message # ""
       /\ error.cause = [message |-> error.message]
  /\ (mpc = "rejected") <=> (mergeError # NoError)
  /\ mpc = "rejected" =>
       /\ mergeError.prefix = MergePrefix
       /\ mergeError.message # ""
       /\ mergeError.cause = [message |-> mergeError.message]
C22_Witness ==
  /\ pc = "resolved" /\ error = NoError
  /\ mpc = "rejected"
  /\ mergeError.message = ErrIO
  /\ mergeError.cause = [message |-> ErrIO]
  /\ output.exists /\ outputWriter
  /\ Len(output.data) >= 1

\* the bytes on disk in all part files
RECURSIVE TotalWritten(_, _)
TotalWritten(files, n) ==
  IF n = 0 THEN 0 ELSE TotalWritten(files, n - 1) + Len(files[n])
\* the bytes of the source the loop has consumed: those delivered by the
\* stream, less the rest of the chunk at hand
Consumed == streamPos - (Len(chunk) - chunkOffset)
InLoop == pc = "slice" /\ chunkOffset < Len(chunk)

\* C23: split cursor invariant. At every step of the streaming loop
\* 1 <= currentPart <= totalParts, 0 <= currentSize <= partSizes[currentPart],
\* the number of bytes to write in the step is at least 1, and the bytes
\* written to all parts so far are as many as the source bytes consumed so far.
C23_CursorInvariant ==
  InLoop =>
    /\ 1 <= currentPart /\ currentPart <= totalParts
    /\ 0 <= currentSize /\ currentSize <= partSizes[currentPart]
    /\ Min(partSizes[currentPart] - currentSize, Len(chunk) - chunkOffset) >= 1
    /\ TotalWritten(partFiles, currentPart) = Consumed

\* the length of part i that the request alone determines: the planned size,
\* and for the last part the bytes of the source that the others leave
LengthByRequest(F, opts, i) ==
  LET n == TotalPartsOf(F, opts)
      sizes == PartSizesOf(F, opts)
  IN  IF i < n THEN sizes[i]
      ELSE F - Sum(SubSeq(sizes, 1, n - 1))

\* C24: chunking independence. For a fixed file and a fixed request, the
\* number of part files and the length of each part file that splitFile has
\* written when it resolves are determined by the file size and the request
\* alone, whatever the lengths of the chunks the stream delivered; and
\* whether the loop comes to its end or stops consuming is determined by the
\* plan alone (its sizes sum to the file size or more, or to less).
C24_ChunkingIndependence ==
  /\ pc = "resolved" =>
       /\ DOMAIN partFiles = 1..TotalPartsOf(Len(source), options)
       /\ \A i \in DOMAIN partFiles :
            Len(partFiles[i]) = LengthByRequest(Len(source), options, i)
  /\ pc \in {"end", "rm", "checksum"} => Sum(partSizes) >= fileSize
  /\ (InLoop /\ partSizes[currentPart] - currentSize < 1) =>
       Sum(partSizes) < fileSize
C24_Witness ==
  /\ pc = "resolved"
  /\ Len(source) > MaxChunk + 1
  /\ Cardinality(DOMAIN partFiles) >= 3
  /\ \A i \in DOMAIN partFiles : Len(partFiles[i]) >= 2

\* C25: no empty parts. When the last writer of a split that is going to
\* resolve has been ended, and after the split has resolved, the part files on
\* disk are exactly the planned parts 1..totalParts and every one of them
\* holds at least one byte.
C25_NoEmptyParts ==
  /\ pc \in {"rm", "checksum"} =>
       /\ DOMAIN partFiles = 1..totalParts
       /\ Len(partSizes) = totalParts
       /\ \A i \in DOMAIN partFiles : Len(partFiles[i]) > 0
  /\ pc = "resolved" =>
       /\ Cardinality(DOMAIN partFiles) = TotalPartsOf(Len(source), options)
       /\ \A i \in DOMAIN partFiles : Len(partFiles[i]) > 0
C25_Witness ==
  /\ pc = "resolved"
  /\ NewFile
  /\ Cardinality(DOMAIN partFiles) >= 3
  /\ \E i \in DOMAIN partFiles : Len(partFiles[i]) = 1
  /\ \E i \in DOMAIN partFiles : Len(partFiles[i]) >= 2

\* the positions, in merge order, of the listed paths that named a missing or
\* an empty file when mergeFiles was called
InvalidPositions ==
  {i \in DOMAIN inputFilePaths :
     MissingAtCall(inputFilePaths[i]) \/ EmptyAtCall(inputFilePaths[i])}

\* C26: first invalid part wins. When mergeFiles rejects because a listed
\* part is missing or empty, the error is the one for the first invalid path
\* in merge order: it names that path, and says that the part does not exist
\* if it is missing and that it is empty if it is empty.
C26_FirstInvalidWins ==
  (mpc = "rejected" /\ mergeError.message \in {ErrPartMissing, ErrPartEmpty}) =>
    /\ InvalidPositions # {}
    /\ LET first == CHOOSE i \in InvalidPositions :
                      \A j \in InvalidPositions : i <= j
           f == inputFilePaths[first]
       IN  /\ mergeError.path = PartPath(fileName, f)
           /\ mergeError.message =
                IF MissingAtCall(f) THEN ErrPartMissing ELSE ErrPartEmpty

\* C27: the source survives a failed split. Whenever splitFile, called on a
\* source that exists, rejects, for any cause, the source file still exists.
C27_SourceSurvivesFailure ==
  (pc = "rejected" /\ error.message # ErrNoEnt) => sourceExists

\* C28 as stated: whenever mergeFiles rejects, for any cause, no part file
\* has been deleted.
C28_NoPartDeleted ==
  mpc = "rejected" => (deleted = {} /\ partFiles = partsAtCall)

\* C28: parts survive a failed merge, up to the delete loop. Whenever
\* mergeFiles rejects, every part it has not deleted is on disk as it was at
\* the call; and it has deleted a part only if the rejection comes from the
\* delete loop itself, after the destination was finalized with every listed
\* part copied: then deletePartsAfterMerge is set, the error is the failure of
\* a delete, and the deleted parts are those before the failing one in merge
\* order.  A checksum mismatch or a failure during the copy deletes nothing.
C28_PartsSurviveFailure ==
  mpc = "rejected" =>
    /\ \A f \in DOMAIN partsAtCall \ deleted :
         f \in DOMAIN partFiles /\ partFiles[f] = partsAtCall[f]
    /\ deleted # {} =>
         /\ mergeOptions.deletePartsAfterMerge
         /\ mergeError.message = ErrIO
         /\ Finalized /\ AllListedCopied
         /\ deleted = {inputFilePaths[i] : i \in 1..Cardinality(deleted)}
         /\ deleted # Listed
C28_Witness ==
  /\ mpc = "rejected" /\ mergeError.message = ErrChecksumMismatch
  /\ mergeOptions.deletePartsAfterMerge
  /\ deleted = {}
  /\ Len(callerPaths) >= 2
  /\ partFiles = partsAtCall

\* C29: mergeFiles does not modify its arguments. After the call, resolved or
\* rejected, the caller's inputFilePaths array holds the same paths in the
\* same order as before the call.
C29_ArgumentsUnchanged ==
  mpc \in {"resolved", "rejected"} => inputFilePaths = callerPaths

\* the bytes of the first n parts of list, as they were at the call
RECURSIVE InListOrder(_, _, _)
InListOrder(list, files, n) ==
  IF n = 0 THEN <<>>
  ELSE InListOrder(list, files, n - 1) \o files[list[n]]
RECURSIVE LengthOfParts(_, _, _)
LengthOfParts(list, files, n) ==
  IF n = 0 THEN 0
  ELSE LengthOfParts(list, files, n - 1) + Len(files[list[n]])

\* C30: the merged output is exactly the concatenation of the parts. While a
\* hasher is in use the bytes fed to it are exactly the bytes written to the
\* destination, in the same order; and once every part has been copied, and
\* after mergeFiles has resolved, the destination's length is the sum of the
\* lengths of the listed parts and it holds the bytes of each part once and
\* contiguously, the parts following one another in merge order.
C30_OutputIsConcatenation ==
  /\ (mpc \in {"copy", "end", "verify"} /\ mergeHasher.active) =>
       mergeHasher.data = output.data
  /\ mpc \in {"end", "verify", "delete", "resolved"} =>
       LET n == Len(inputFilePaths)
       IN  /\ Len(output.data) = LengthOfParts(inputFilePaths, partsAtCall, n)
           /\ output.data = InListOrder(inputFilePaths, partsAtCall, n)
           /\ \A f \in Listed : OccursIn(partsAtCall[f], output.data)
C30_Witness ==
  /\ mpc = "verify"
  /\ mergeHasher.active /\ mergeHasher.data = output.data
  /\ Len(inputFilePaths) >= 3
  /\ inputFilePaths # callerPaths
  /\ \E f \in Listed : Len(partsAtCall[f]) >= 2
  /\ Len(output.data) = Len(source)

====
